---------------------------- MODULE Spec2Model ----------------------------
(***************************************************************************)
(* A model of the WordleSolver session of wordle_solver.py: the feedback   *)
(* pattern, the candidate filter, apply_guess / reset, the two             *)
(* recommendation operations get_best_guess / get_best_guess_bot, and the  *)
(* scoring and query operations calculate_entropy,                         *)
(* calculate_expected_remaining, get_word_score and get_remaining_words.   *)
(*                                                                         *)
(* A string is a sequence of one-character strings.  Scores that the code  *)
(* computes in floating point are kept exactly: an entropy as the pair     *)
(* (n, product of c^c over the pattern classes), an expected-remaining     *)
(* value as the fraction (sum of c^2) / n, a tie-break score as a fraction *)
(* of letter counts or as the frequency under the logarithm.               *)
(***************************************************************************)
EXTENDS Integers, Sequences, FiniteSets, TLC

VARIABLES
    hard_mode,         \* self.hard_mode
    bot_mode,          \* self.bot_mode (after the constructor's fallback)
    all_words,         \* self.all_words: sorted list of valid guesses
    solutions_list,    \* self.solutions_list: curated answers, file order
    word_frequencies,  \* self.word_frequencies: word -> frequency
    possible_answers,  \* self.possible_answers: set of words
    guesses_made,      \* self.guesses_made: list of (guess, pattern)
    call,              \* the last call made on the session, with its arguments
    ret                \* what that call returned (or the exception it raised)

config == <<hard_mode, bot_mode, all_words, solutions_list, word_frequencies>>
session == <<possible_answers, guesses_made>>
vars == <<hard_mode, bot_mode, all_words, solutions_list, word_frequencies,
          possible_answers, guesses_made, call, ret>>

-----------------------------------------------------------------------------
(* Bounds of the model *)

\* apply_guess is not called once the history holds this many observations
MaxGuesses == 2
\* top_n ranges over 1..MaxTopN
MaxTopN == 3
\* max_show ranges over 1..MaxShow
MaxShow == 2
\* the scoring functions are checked on every pool of at most MaxPool words
MaxPool == 3
\* get_pattern is checked on every pair of words over the first NumLetters letters
NumLetters == 3

(* Program constants *)

\* length of a word and of a pattern
WordLen == 5

-----------------------------------------------------------------------------
(* Strings *)

LowerCase == <<"a","b","c","d","e","f","g","h","i","j","k","l","m",
               "n","o","p","q","r","s","t","u","v","w","x","y","z">>
UpperCase == <<"A","B","C","D","E","F","G","H","I","J","K","L","M",
               "N","O","P","Q","R","S","T","U","V","W","X","Y","Z">>
Whitespace == {" ", "\t", "\n"}

Range(s) == {s[i] : i \in DOMAIN s}

\* the lower-case letter of each upper-case letter
ToLower == [c \in Range(UpperCase) |->
               LowerCase[CHOOSE i \in DOMAIN UpperCase : UpperCase[i] = c]]

\* the alphabetic characters
Alpha == Range(LowerCase) \cup Range(UpperCase)

\* str.lower() on one character
LowerChar(c) == IF c \in DOMAIN ToLower THEN ToLower[c] ELSE c

\* str.lower()
lower(s) == [i \in DOMAIN s |-> LowerChar(s[i])]

\* str.strip(): drop the leading and the trailing whitespace
strip(s) ==
    LET keep == {i \in DOMAIN s : s[i] \notin Whitespace}
    IN  IF keep = {} THEN <<>>
        ELSE LET lo == CHOOSE i \in keep : \A j \in keep : i <= j
                 hi == CHOOSE i \in keep : \A j \in keep : j <= i
             IN  SubSeq(s, lo, hi)

\* str.isalpha(): non-empty and every character a letter
isalpha(s) ==
    /\ Len(s) > 0
    /\ \A i \in DOMAIN s : s[i] \in Alpha

-----------------------------------------------------------------------------
(* Pattern engine *)

\* the None the code writes over a consumed answer letter
None == "None"

\* the outcome of a call: the value it returned or the exception it raised
Returned(v) == [status |-> "returned", value |-> v]
Raised(e) == [status |-> "raised", value |-> e]
\* a call that has not returned yet
Pending == [status |-> "pending", value |-> None]

\* first pass of get_pattern: greens, each consuming its answer letter
GreenPass(guess, answer) ==
    [pattern |-> [i \in 1..WordLen |-> IF guess[i] = answer[i] THEN "g" ELSE "x"],
     answer_chars |-> [i \in 1..WordLen |->
                          IF guess[i] = answer[i] THEN None ELSE answer[i]]]

\* list.index: the first position holding c
index(chars, c) ==
    CHOOSE j \in DOMAIN chars :
        /\ chars[j] = c
        /\ \A k \in DOMAIN chars : chars[k] = c => j <= k

\* one iteration of the second loop, which never consumes the letter it matched
YellowStepNoConsume(st, guess, i) ==
    IF st.pattern[i] = "x" /\ guess[i] \in Range(st.answer_chars)
    THEN [st EXCEPT !.pattern[i] = "y"]
    ELSE st

\* one iteration of the second loop of get_pattern, at position i
YellowStep(st, guess, i) ==
    IF st.pattern[i] = "x" /\ guess[i] \in Range(st.answer_chars)
    THEN [pattern |-> [st.pattern EXCEPT ![i] = "y"],
          answer_chars |-> [st.answer_chars EXCEPT
                               ![index(st.answer_chars, guess[i])] = None]]
    ELSE st

RECURSIVE YellowPass(_, _, _)
\* second pass of get_pattern, positions i..WordLen left to right
YellowPass(st, guess, i) ==
    IF i > WordLen THEN st
    ELSE YellowPass(YellowStep(st, guess, i), guess, i + 1)

\* WordleSolver.get_pattern
get_pattern(guess, answer) == YellowPass(GreenPass(guess, answer), guess, 1).pattern

\* a filter that keeps the words whose pattern differs
filter_words_negated(guess, pattern, word_pool) ==
    {word \in word_pool : get_pattern(guess, word) # pattern}

\* WordleSolver.filter_words
filter_words(guess, pattern, word_pool) ==
    {word \in word_pool : get_pattern(guess, word) = pattern}

-----------------------------------------------------------------------------
(* The words of the model *)

alert == <<"a","l","e","r","t">>
alter == <<"a","l","t","e","r">>
crane == <<"c","r","a","n","e">>
later == <<"l","a","t","e","r">>
slate == <<"s","l","a","t","e">>
stale == <<"s","t","a","l","e">>

\* what _load_words returns: the valid guesses, sorted, without duplicates
Vocabulary == <<alert, alter, later, slate>>

\* what _load_solutions_with_freq returns when the file is found: the rows in
\* file order (a word may be listed twice, or be no valid guess) and the
\* frequency of each
SolutionsFile ==
    [solutions |-> <<later, alert, slate, stale, later>>,
     frequencies |-> [w \in {later, alert, slate, stale} |->
                         IF w = later THEN 8 ELSE IF w = alert THEN 2 ELSE 5]]

\* what it returns when no file is found
NoSolutionsFile == [solutions |-> <<>>, frequencies |-> <<>>]

-----------------------------------------------------------------------------
(* Construction *)

\* WordleSolver.__init__: the fields of the new session
Construct(hard, bot, words, file) ==
    IF bot
    THEN IF file.solutions # <<>>
         THEN [hard_mode |-> hard, bot_mode |-> TRUE, all_words |-> words,
               solutions_list |-> file.solutions,
               word_frequencies |-> file.frequencies,
               possible_answers |-> Range(file.solutions),
               guesses_made |-> <<>>]
         ELSE [hard_mode |-> hard, bot_mode |-> FALSE, all_words |-> words,
               solutions_list |-> file.solutions,
               word_frequencies |-> <<>>,
               possible_answers |-> Range(words),
               guesses_made |-> <<>>]
    ELSE [hard_mode |-> hard, bot_mode |-> FALSE, all_words |-> words,
          solutions_list |-> <<>>,
          word_frequencies |-> <<>>,
          possible_answers |-> Range(words),
          guesses_made |-> <<>>]

\* a call: the operation and its arguments (those it does not take left empty)
NoArgs == [op |-> "", guess |-> <<>>, pattern |-> <<>>, answer |-> <<>>, top_n |-> 0,
           word |-> <<>>, word_pool |-> {}, max_show |-> 0]

Init ==
    \E hard \in BOOLEAN, bot \in BOOLEAN, file \in {SolutionsFile, NoSolutionsFile} :
        LET s == Construct(hard, bot, Vocabulary, file)
        IN  /\ hard_mode = s.hard_mode
            /\ bot_mode = s.bot_mode
            /\ all_words = s.all_words
            /\ solutions_list = s.solutions_list
            /\ word_frequencies = s.word_frequencies
            /\ possible_answers = s.possible_answers
            /\ guesses_made = s.guesses_made
            /\ call = [NoArgs EXCEPT !.op = "__init__"]
            /\ ret = Returned(None)

-----------------------------------------------------------------------------
(* apply_guess and reset *)

\* the answers whose true feedback a caller may report
Secrets == {later, slate}

\* the (guess, pattern) arguments a caller passes: the true feedback of a
\* guess against a secret, arguments that need normalising, malformed ones,
\* and a well-formed observation that no word of the pool satisfies
Observations ==
    { <<g, get_pattern(g, w)>> : g \in {crane, later, stale}, w \in Secrets }
    \cup
    { << <<"L","a","T","e","R">>, <<"y","Y","y","Y","y"," ">> >>,
      << <<" ","s","t","a","l","e","\n">>, <<"\t","X","y","y","y","y">> >>,
      << <<"l","a","t","e">>, <<"x","y","y","x","y">> >>,
      << <<"c","r","4","n","e">>, <<"x","y","y","x","y">> >>,
      << crane, <<"g","y","x">> >>,
      << crane, <<"g","y","x","b","g">> >>,
      << <<"l","a"," ","e","r">>, <<"g","g","g","g","g","g">> >>,
      << crane, <<"g","g","g","g","g">> >> }

\* apply_guess with a shortcut that takes an all-green guess for the answer
apply_guess_all_green_shortcut(pa, gm, guess_arg, pattern_arg) ==
    LET guess == strip(lower(guess_arg))
        pattern == strip(lower(pattern_arg))
    IN  IF \/ Len(guess) # WordLen \/ ~isalpha(guess)
           \/ Len(pattern) # WordLen
           \/ ~(\A i \in DOMAIN pattern : pattern[i] \in {"g", "y", "x"})
        THEN [possible_answers |-> pa, guesses_made |-> gm, ret |-> Raised("ValueError")]
        ELSE LET remaining == IF pattern = <<"g", "g", "g", "g", "g">>
                              THEN {guess}
                              ELSE filter_words(guess, pattern, pa)
             IN  [possible_answers |-> remaining,
                  guesses_made |-> Append(gm, <<guess, pattern>>),
                  ret |-> Returned(Cardinality(remaining))]

\* apply_guess filtering the whole vocabulary instead of the current pool
apply_guess_refilter(pa, gm, guess_arg, pattern_arg) ==
    LET guess == strip(lower(guess_arg))
        pattern == strip(lower(pattern_arg))
    IN  IF \/ Len(guess) # WordLen \/ ~isalpha(guess)
           \/ Len(pattern) # WordLen
           \/ ~(\A i \in DOMAIN pattern : pattern[i] \in {"g", "y", "x"})
        THEN [possible_answers |-> pa, guesses_made |-> gm, ret |-> Raised("ValueError")]
        ELSE LET remaining == filter_words(guess, pattern, Range(all_words))
             IN  [possible_answers |-> remaining,
                  guesses_made |-> Append(gm, <<guess, pattern>>),
                  ret |-> Returned(Cardinality(remaining))]

\* apply_guess filtering by the guess as passed, not as normalised
apply_guess_raw_filter(pa, gm, guess_arg, pattern_arg) ==
    LET guess == strip(lower(guess_arg))
        pattern == strip(lower(pattern_arg))
    IN  IF \/ Len(guess) # WordLen \/ ~isalpha(guess)
           \/ Len(pattern) # WordLen
           \/ ~(\A i \in DOMAIN pattern : pattern[i] \in {"g", "y", "x"})
        THEN [possible_answers |-> pa, guesses_made |-> gm, ret |-> Raised("ValueError")]
        ELSE LET remaining == filter_words(strip(guess_arg), pattern, pa)
             IN  [possible_answers |-> remaining,
                  guesses_made |-> Append(gm, <<guess, pattern>>),
                  ret |-> Returned(Cardinality(remaining))]

\* apply_guess recording the arguments as passed, not as normalised
apply_guess_record_raw(pa, gm, guess_arg, pattern_arg) ==
    LET guess == strip(lower(guess_arg))
        pattern == strip(lower(pattern_arg))
    IN  IF \/ Len(guess) # WordLen \/ ~isalpha(guess)
           \/ Len(pattern) # WordLen
           \/ ~(\A i \in DOMAIN pattern : pattern[i] \in {"g", "y", "x"})
        THEN [possible_answers |-> pa, guesses_made |-> gm, ret |-> Raised("ValueError")]
        ELSE LET remaining == filter_words(guess, pattern, pa)
             IN  [possible_answers |-> remaining,
                  guesses_made |-> Append(gm, <<guess_arg, pattern_arg>>),
                  ret |-> Returned(Cardinality(remaining))]

\* apply_guess with the observation recorded before the arguments are checked
apply_guess_append_first(pa, gm, guess_arg, pattern_arg) ==
    LET guess == strip(lower(guess_arg))
        pattern == strip(lower(pattern_arg))
    IN  IF \/ Len(guess) # WordLen \/ ~isalpha(guess)
           \/ Len(pattern) # WordLen
           \/ ~(\A i \in DOMAIN pattern : pattern[i] \in {"g", "y", "x"})
        THEN [possible_answers |-> pa,
              guesses_made |-> Append(gm, <<guess, pattern>>),
              ret |-> Raised("ValueError")]
        ELSE LET remaining == filter_words(guess, pattern, pa)
             IN  [possible_answers |-> remaining,
                  guesses_made |-> Append(gm, <<guess, pattern>>),
                  ret |-> Returned(Cardinality(remaining))]

\* apply_guess treating an observation that leaves no candidate as an error
apply_guess_raise_when_empty(pa, gm, guess_arg, pattern_arg) ==
    LET guess == strip(lower(guess_arg))
        pattern == strip(lower(pattern_arg))
    IN  IF \/ Len(guess) # WordLen \/ ~isalpha(guess)
           \/ Len(pattern) # WordLen
           \/ ~(\A i \in DOMAIN pattern : pattern[i] \in {"g", "y", "x"})
           \/ filter_words(guess, pattern, pa) = {}
        THEN [possible_answers |-> pa, guesses_made |-> gm, ret |-> Raised("ValueError")]
        ELSE LET remaining == filter_words(guess, pattern, pa)
             IN  [possible_answers |-> remaining,
                  guesses_made |-> Append(gm, <<guess, pattern>>),
                  ret |-> Returned(Cardinality(remaining))]

\* WordleSolver.apply_guess on a session holding (pa, gm): the fields after the
\* call and what the call returns
apply_guess_result(pa, gm, guess_arg, pattern_arg) ==
    LET guess == strip(lower(guess_arg))
        pattern == strip(lower(pattern_arg))
    IN  IF Len(guess) # WordLen \/ ~isalpha(guess)
        THEN [possible_answers |-> pa, guesses_made |-> gm, ret |-> Raised("ValueError")]
        ELSE IF \/ Len(pattern) # WordLen
                \/ ~(\A i \in DOMAIN pattern : pattern[i] \in {"g", "y", "x"})
        THEN [possible_answers |-> pa, guesses_made |-> gm, ret |-> Raised("ValueError")]
        ELSE LET remaining == filter_words(guess, pattern, pa)
             IN  [possible_answers |-> remaining,
                  guesses_made |-> Append(gm, <<guess, pattern>>),
                  ret |-> Returned(Cardinality(remaining))]

apply_guess(guess_arg, pattern_arg) ==
    /\ Len(guesses_made) < MaxGuesses
    /\ LET r == apply_guess_result(possible_answers, guesses_made,
                                   guess_arg, pattern_arg)
       IN  /\ possible_answers' = r.possible_answers
           /\ guesses_made' = r.guesses_made
           /\ ret' = r.ret
    /\ call' = [NoArgs EXCEPT !.op = "apply_guess",
                              !.guess = guess_arg, !.pattern = pattern_arg]
    /\ UNCHANGED config

\* the pool reset restores, ignoring the mode
reset_pool_all_words(bot, solutions, words) == Range(words)

\* WordleSolver.reset: the pool it restores
reset_pool(bot, solutions, words) ==
    IF bot /\ solutions # <<>> THEN Range(solutions) ELSE Range(words)

reset ==
    /\ possible_answers' = reset_pool(bot_mode, solutions_list, all_words)
    /\ guesses_made' = <<>>
    /\ call' = [NoArgs EXCEPT !.op = "reset"]
    /\ ret' = Returned(None)
    /\ UNCHANGED config

-----------------------------------------------------------------------------
(* Exact numbers for the floats of the code *)

RECURSIVE GCD(_, _)
GCD(a, b) == IF b = 0 THEN a ELSE GCD(b, a % b)

RECURSIVE Pow(_, _)
Pow(a, k) == IF k = 0 THEN 1 ELSE a * Pow(a, k - 1)

\* the float num / den
Ratio(num, den) ==
    LET d == GCD(num, den)
    IN  [kind |-> "ratio", num |-> num \div d, den |-> den \div d]

\* the float log2(n) - log2(cc) / n: the entropy of n words in classes of
\* sizes c_1..c_k, where cc is the product of the c_i ^ c_i
Bits(n, cc) == [kind |-> "bits", num |-> cc, den |-> n]

\* the float math.log10(arg) / 10
Log10Tenth(arg) == [kind |-> "log10/10", num |-> arg, den |-> 1]

Sign(i) == IF i < 0 THEN -1 ELSE IF i > 0 THEN 1 ELSE 0

\* -1, 0 or 1 as log10(arg) / 10 is below, equal to or above num / den
CmpLogRatio(arg, num, den) ==
    IF num = 0 THEN (IF arg = 1 THEN 0 ELSE 1)
    ELSE IF arg < 10 /\ 10 * num >= den THEN -1
    ELSE Sign(Pow(arg, den) - Pow(10, 10 * num))

\* -1, 0 or 1 as the float x is below, equal to or above the float y
Cmp(x, y) ==
    IF x.kind = "ratio" /\ y.kind = "ratio" THEN Sign(x.num * y.den - y.num * x.den)
    ELSE IF x.kind = "log10/10" /\ y.kind = "log10/10" THEN Sign(x.num - y.num)
    ELSE IF x.kind = "log10/10" /\ y.kind = "ratio" THEN CmpLogRatio(x.num, y.num, y.den)
    ELSE IF x.kind = "ratio" /\ y.kind = "log10/10" THEN -CmpLogRatio(y.num, x.num, x.den)
    ELSE IF x.den = y.den THEN Sign(y.num - x.num)
    ELSE Sign(Pow(x.den, x.den * y.den) * Pow(y.num, x.den)
              - Pow(y.den, x.den * y.den) * Pow(x.num, y.den))

Zero == Ratio(0, 1)
One == Ratio(1, 1)
ZeroBits == Bits(1, 1)
\* the entropy of one candidate, written where that of two is meant
OneBitAsZero == Bits(1, 1)
OneBit == Bits(2, 1)

-----------------------------------------------------------------------------
(* Scoring engine *)

\* Counter of the patterns of guess against the pool: pattern -> count
pattern_counts(guess, word_pool) ==
    LET pairs == {<<answer, get_pattern(guess, answer)>> : answer \in word_pool}
    IN  [p \in {pr[2] : pr \in pairs} |-> Cardinality({pr \in pairs : pr[2] = p})]

RECURSIVE ProductCC(_, _)
\* the product of counts[p] ^ counts[p] over the patterns p of ps
ProductCC(counts, ps) ==
    IF ps = {} THEN 1
    ELSE LET p == CHOOSE q \in ps : TRUE
         IN  Pow(counts[p], counts[p]) * ProductCC(counts, ps \ {p})

RECURSIVE SumCounts(_, _)
\* the sum of counts[p] over the patterns p of ps, the counts not squared
SumCounts(counts, ps) ==
    IF ps = {} THEN 0
    ELSE LET p == CHOOSE q \in ps : TRUE
         IN  counts[p] + SumCounts(counts, ps \ {p})

RECURSIVE SumSquares(_, _)
\* the sum of counts[p] * counts[p] over the patterns p of ps
SumSquares(counts, ps) ==
    IF ps = {} THEN 0
    ELSE LET p == CHOOSE q \in ps : TRUE
         IN  counts[p] * counts[p] + SumSquares(counts, ps \ {p})

\* WordleSolver.calculate_entropy
calculate_entropy(guess, word_pool) ==
    IF word_pool = {} THEN ZeroBits
    ELSE LET counts == pattern_counts(guess, word_pool)
         IN  Bits(Cardinality(word_pool), ProductCC(counts, DOMAIN counts))

\* WordleSolver.calculate_expected_remaining
calculate_expected_remaining(guess, word_pool) ==
    IF word_pool = {} THEN Zero
    ELSE LET counts == pattern_counts(guess, word_pool)
         IN  Ratio(SumSquares(counts, DOMAIN counts), Cardinality(word_pool))

\* _compute_letter_frequencies: the number of words of all_words holding c
letter_count(c) == Cardinality({i \in DOMAIN all_words : c \in Range(all_words[i])})

RECURSIVE SumLetterCounts(_)
SumLetterCounts(cs) ==
    IF cs = {} THEN 0
    ELSE LET c == CHOOSE d \in cs : TRUE
         IN  letter_count(c) + SumLetterCounts(cs \ {c})

\* _compute_letter_frequencies: the total the counts are divided by
letter_total == SumLetterCounts(UNION {Range(all_words[i]) : i \in DOMAIN all_words})

\* WordleSolver.get_word_score
get_word_score(word) ==
    IF bot_mode /\ word \in DOMAIN word_frequencies
    THEN Log10Tenth(word_frequencies[word] + 1)
    ELSE IF letter_total = 0 THEN Zero
    ELSE Ratio(SumLetterCounts(Range(word)), letter_total)

-----------------------------------------------------------------------------
(* Ranking engine *)

\* a sort that leaves the list in the order the loop appended
sorted_identity(seq, less) == seq

\* list.sort(key=...): the stable sort of seq, where less[i][j] tells whether
\* the key of the i-th element is below the key of the j-th
sorted(seq, less) ==
    LET \* the place of the i-th element: after the elements with a smaller
        \* key and the earlier elements with an equal key
        pos == [i \in DOMAIN seq |->
                   1 + Cardinality({j \in DOMAIN seq :
                           \/ less[j][i]
                           \/ ~less[i][j] /\ j < i})] \o <<>>
    IN  [k \in DOMAIN seq |-> seq[CHOOSE i \in DOMAIN seq : pos[i] = k]]

\* seq[:top_n], for top_n >= 0
Take(seq, top_n) == SubSeq(seq, 1, IF top_n < Len(seq) THEN top_n ELSE Len(seq))

RECURSIVE Orders(_)
\* the orders in which a set may be iterated
Orders(S) ==
    IF S = {} THEN {<<>>}
    ELSE UNION {{<<x>> \o o : o \in Orders(S \ {x})} : x \in S}

\* the sort key of get_best_guess, (-entropy, -is_possible, expected, -score),
\* kept as <<entropy, is_possible, expected, score>>
entropy_key(x) == <<x[2], x[4], x[3], get_word_score(x[1])>>

\* the order of the keys of get_best_guess
EntropyKeyLess(k, l) ==
    LET c1 == Cmp(l[1], k[1])
        c3 == Cmp(k[3], l[3])
    IN  \/ c1 < 0
        \/ c1 = 0 /\ k[2] /\ ~l[2]
        \/ c1 = 0 /\ k[2] = l[2] /\ c3 < 0
        \/ c1 = 0 /\ k[2] = l[2] /\ c3 = 0 /\ Cmp(l[4], k[4]) < 0

\* the sort key of get_best_guess_bot, (expected, -is_possible, -frequency
\* score), kept as <<expected, is_possible, score>>
bot_key(x) == <<x[2], x[4], x[3]>>

\* the order of the keys of get_best_guess_bot
BotKeyLess(k, l) ==
    LET c1 == Cmp(k[1], l[1])
    IN  \/ c1 < 0
        \/ c1 = 0 /\ k[2] /\ ~l[2]
        \/ c1 = 0 /\ k[2] = l[2] /\ Cmp(l[3], k[3]) < 0

\* the sort key of the two-candidate case of get_best_guess_bot: -frequency
\* score, kept as the score
frequency_key(x) == x[3]

FrequencyKeyLess(k, l) == Cmp(l, k) < 0

\* the candidate guesses when the restriction of hard mode is ignored
candidates_open == Range(all_words)

\* the candidate guesses of a recommendation
candidates == IF hard_mode THEN possible_answers ELSE Range(all_words)

\* the set a recommendation iterates over
iterated == IF Cardinality(possible_answers) <= 2 THEN possible_answers ELSE candidates

\* the words the loop of a recommendation scores: none when a shortcut returns
looped == IF Cardinality(possible_answers) <= 2 THEN {} ELSE candidates

\* the tuple the loop of get_best_guess appends for a word
entropy_entry(word) ==
    <<word,
      calculate_entropy(word, possible_answers),
      calculate_expected_remaining(word, possible_answers),
      word \in possible_answers>>

\* the tuple the loop of get_best_guess_bot appends for a word
bot_entry(word) ==
    <<word,
      calculate_expected_remaining(word, possible_answers),
      get_word_score(word),
      word \in possible_answers>>

\* the tuples of the words of S, each with its sort key
entropy_rows(S) ==
    {LET e == entropy_entry(w) IN [word |-> w, entry |-> e, key |-> entropy_key(e)] :
        w \in S}

bot_rows(S) ==
    {LET e == bot_entry(w) IN [word |-> w, entry |-> e, key |-> bot_key(e)] : w \in S}

\* the row of a word
RowOf(rows, w) == CHOOSE r \in rows : r.word = w

\* WordleSolver.get_best_guess, iterating its set in the given order; rows
\* holds the tuple and the key of each candidate
get_best_guess_result(top_n, order, rows) ==
    IF possible_answers = {} THEN <<>>
    ELSE IF Cardinality(possible_answers) = 1
    THEN << <<order[1], ZeroBits, One, TRUE>> >>
    ELSE IF Cardinality(possible_answers) = 2
    THEN [i \in DOMAIN order |-> <<order[i], OneBit, One, TRUE>>]
    ELSE LET results == [i \in DOMAIN order |-> RowOf(rows, order[i]).entry]
             keys == [i \in DOMAIN order |-> RowOf(rows, order[i]).key] \o <<>>
             less == [i \in DOMAIN order |-> [j \in DOMAIN order |->
                         EntropyKeyLess(keys[i], keys[j])]]
         IN  Take(sorted(results, less), top_n)

\* WordleSolver.get_best_guess_bot, iterating its set in the given order
get_best_guess_bot_result(top_n, order, rows) ==
    IF possible_answers = {} THEN <<>>
    ELSE IF Cardinality(possible_answers) = 1
    THEN << <<order[1], One, get_word_score(order[1]), TRUE>> >>
    ELSE IF Cardinality(possible_answers) = 2
    THEN LET results == [i \in DOMAIN order |->
                            <<order[i], One, get_word_score(order[i]), TRUE>>]
             keys == [i \in DOMAIN order |-> frequency_key(results[i])] \o <<>>
             less == [i \in DOMAIN order |-> [j \in DOMAIN order |->
                         FrequencyKeyLess(keys[i], keys[j])]]
         IN  sorted(results, less)
    ELSE LET results == [i \in DOMAIN order |-> RowOf(rows, order[i]).entry]
             keys == [i \in DOMAIN order |-> RowOf(rows, order[i]).key] \o <<>>
             less == [i \in DOMAIN order |-> [j \in DOMAIN order |->
                         BotKeyLess(keys[i], keys[j])]]
         IN  Take(sorted(results, less), top_n)

\* the call returns what some iteration order of the set gives
get_best_guess ==
    /\ \E rows \in {entropy_rows(looped)}, top_n \in 1..MaxTopN :
           \E result \in {get_best_guess_result(top_n, order, rows) :
                              order \in Orders(iterated)} :
              /\ ret' = Returned(result)
              /\ call' = [NoArgs EXCEPT !.op = "get_best_guess", !.top_n = top_n]
    /\ UNCHANGED <<config, session>>

get_best_guess_bot ==
    /\ \E rows \in {bot_rows(looped)}, top_n \in 1..MaxTopN :
           \E result \in {get_best_guess_bot_result(top_n, order, rows) :
                              order \in Orders(iterated)} :
              /\ ret' = Returned(result)
              /\ call' = [NoArgs EXCEPT !.op = "get_best_guess_bot", !.top_n = top_n]
    /\ UNCHANGED <<config, session>>

-----------------------------------------------------------------------------
(* The scoring and query operations, called on the session *)

\* the words a caller scores, and the guesses it evaluates against the pool
ScoredWords == {alter, crane, slate}
EvaluatedGuesses == {crane, later}

\* a call of calculate_entropy
call_calculate_entropy(guess, word_pool) ==
    /\ ret' = Returned(calculate_entropy(guess, word_pool))
    /\ call' = [NoArgs EXCEPT !.op = "calculate_entropy",
                              !.guess = guess, !.word_pool = word_pool]
    /\ UNCHANGED <<config, session>>

\* a call of calculate_expected_remaining
call_calculate_expected_remaining(guess, word_pool) ==
    /\ ret' = Returned(calculate_expected_remaining(guess, word_pool))
    /\ call' = [NoArgs EXCEPT !.op = "calculate_expected_remaining",
                              !.guess = guess, !.word_pool = word_pool]
    /\ UNCHANGED <<config, session>>

\* a call of get_word_score
call_get_word_score(word) ==
    /\ ret' = Returned(get_word_score(word))
    /\ call' = [NoArgs EXCEPT !.op = "get_word_score", !.word = word]
    /\ UNCHANGED <<config, session>>

\* the code point of each lower-case letter, counted from "a"
CodePoint == [c \in Range(LowerCase) |->
                 CHOOSE i \in DOMAIN LowerCase : LowerCase[i] = c]

\* the place of a lower-case letter in the order of the characters
ord(c) == CodePoint[c]

\* s < t for two strings of lower-case letters
StrLess(s, t) ==
    LET differ == {i \in DOMAIN s \cap DOMAIN t : s[i] # t[i]}
    IN  IF differ = {} THEN Len(s) < Len(t)
        ELSE LET i == CHOOSE k \in differ : \A l \in differ : k <= l
             IN  ord(s[i]) < ord(t[i])

\* WordleSolver.get_remaining_words, iterating the pool in the given order
get_remaining_words_result(max_show, order) ==
    LET less == [i \in DOMAIN order |-> [j \in DOMAIN order |->
                    StrLess(order[i], order[j])]]
    IN  Take(sorted(order, less), max_show)

\* get_remaining_words cutting the pool itself down to the words it shows
get_remaining_words_truncating ==
    /\ \E max_show \in 1..MaxShow :
           \E result \in {get_remaining_words_result(max_show, order) :
                              order \in Orders(possible_answers)} :
              /\ ret' = Returned(result)
              /\ possible_answers' = Range(result)
              /\ call' = [NoArgs EXCEPT !.op = "get_remaining_words",
                                        !.max_show = max_show]
    /\ UNCHANGED <<config, guesses_made>>

get_remaining_words ==
    /\ \E max_show \in 1..MaxShow :
           \E result \in {get_remaining_words_result(max_show, order) :
                              order \in Orders(possible_answers)} :
              /\ ret' = Returned(result)
              /\ call' = [NoArgs EXCEPT !.op = "get_remaining_words",
                                        !.max_show = max_show]
    /\ UNCHANGED <<config, session>>

Next ==
    \/ \E o \in Observations : apply_guess(o[1], o[2])
    \/ reset
    \/ get_best_guess
    \/ get_best_guess_bot
    \/ \E g \in EvaluatedGuesses : call_calculate_entropy(g, possible_answers)
    \/ \E g \in EvaluatedGuesses : call_calculate_expected_remaining(g, possible_answers)
    \/ \E w \in ScoredWords : call_get_word_score(w)
    \/ get_remaining_words

Spec == Init /\ [][Next]_vars

-----------------------------------------------------------------------------
(* get_pattern on its own: every pair of words over a small alphabet *)

\* the words over the first NumLetters letters
SmallWords == [1..WordLen -> {LowerCase[i] : i \in 1..NumLetters}]

InitPattern ==
    \E g \in SmallWords, a \in SmallWords :
        LET s == Construct(FALSE, FALSE, Vocabulary, NoSolutionsFile)
        IN  /\ hard_mode = s.hard_mode
            /\ bot_mode = s.bot_mode
            /\ all_words = s.all_words
            /\ solutions_list = s.solutions_list
            /\ word_frequencies = s.word_frequencies
            /\ possible_answers = s.possible_answers
            /\ guesses_made = s.guesses_made
            /\ call = [NoArgs EXCEPT !.op = "get_pattern", !.guess = g, !.answer = a]
            /\ ret = Pending

call_get_pattern ==
    /\ call.op = "get_pattern"
    /\ ret = Pending
    /\ ret' = Returned(get_pattern(call.guess, call.answer))
    /\ UNCHANGED <<config, session, call>>

NextPattern == call_get_pattern

SpecPattern == InitPattern /\ [][NextPattern]_vars

-----------------------------------------------------------------------------
(* The scoring functions on their own: every guess against every small pool *)

ScoreGuesses == {alert, alter, crane, later, slate, stale}

\* the pools of at most MaxPool words
ScorePools == {P \in SUBSET ScoreGuesses : Cardinality(P) <= MaxPool}

InitScoring ==
    LET s == Construct(FALSE, FALSE, Vocabulary, NoSolutionsFile)
    IN  /\ hard_mode = s.hard_mode
        /\ bot_mode = s.bot_mode
        /\ all_words = s.all_words
        /\ solutions_list = s.solutions_list
        /\ word_frequencies = s.word_frequencies
        /\ possible_answers = s.possible_answers
        /\ guesses_made = s.guesses_made
        /\ call = [NoArgs EXCEPT !.op = "__init__"]
        /\ ret = Returned(None)

NextScoring ==
    \/ \E g \in ScoreGuesses, P \in ScorePools : call_calculate_entropy(g, P)
    \/ \E g \in ScoreGuesses, P \in ScorePools : call_calculate_expected_remaining(g, P)

SpecScoring == InitScoring /\ [][NextScoring]_vars

-----------------------------------------------------------------------------
(* Vocabulary of the properties *)

\* the pool the session starts from: the curated solutions in bot mode,
\* otherwise the full vocabulary
InitialPool == IF bot_mode THEN Range(solutions_list) ELSE Range(all_words)

\* the word is consistent with every recorded observation
ConsistentWithHistory(w) ==
    \A i \in DOMAIN guesses_made :
        get_pattern(guesses_made[i][1], w) = guesses_made[i][2]

\* the arguments after trimming and lower-casing
Normalised(arg) == strip(lower(arg))

AllGreen == <<"g", "g", "g", "g", "g">>

\* the guess or the pattern is malformed once normalised
Malformed(guess_arg, pattern_arg) ==
    LET g == Normalised(guess_arg)
        p == Normalised(pattern_arg)
    IN  \/ Len(g) # 5
        \/ \E i \in DOMAIN g : g[i] \notin Range(LowerCase)
        \/ Len(p) # 5
        \/ \E i \in DOMAIN p : p[i] \notin {"g", "y", "x"}

\* the last call was apply_guess and it returned
AppliedGuess == call.op = "apply_guess" /\ ret.status = "returned"

IsPrefix(s, t) == Len(s) <= Len(t) /\ SubSeq(t, 1, Len(s)) = s

\* the last call was one of the two recommendation calls
Recommended == call.op \in {"get_best_guess", "get_best_guess_bot"}

-----------------------------------------------------------------------------
(* C1..C10 *)

\* C1: in every reachable session state possible_answers is exactly the set of
\* words of the initial pool whose pattern against every recorded guess is the
\* recorded pattern.
C1_PoolIsConsistentSet ==
    possible_answers = {w \in InitialPool : ConsistentWithHistory(w)}

C1_Witness ==
    /\ Len(guesses_made) = 2
    /\ bot_mode
    /\ Cardinality(possible_answers) = 1

\* C2: every apply_guess leaves possible_answers a subset of what it was, so
\* the pool size never increases; only reset makes the pool larger.
C2_MonotonicShrink ==
    [][/\ call'.op = "apply_guess" =>
            /\ possible_answers' \subseteq possible_answers
            /\ Cardinality(possible_answers') <= Cardinality(possible_answers)
       /\ Cardinality(possible_answers') > Cardinality(possible_answers) =>
            call'.op = "reset"]_vars

C2_Witness ==
    /\ AppliedGuess
    /\ Len(guesses_made) = 2
    /\ ret.value > 0
    /\ ret.value < Cardinality({w \in InitialPool :
                      get_pattern(guesses_made[1][1], w) = guesses_made[1][2]})

\* C3: a word of the initial pool whose true feedback is what every recorded
\* observation reports is still in possible_answers, after any number of
\* observations.
C3_TrueAnswerStays ==
    \A w \in InitialPool : ConsistentWithHistory(w) => w \in possible_answers

C3_Witness ==
    /\ AppliedGuess
    /\ Len(guesses_made) = 2
    /\ guesses_made[1][1] \notin Range(all_words)
    /\ \E w \in InitialPool : ConsistentWithHistory(w) /\ w \in possible_answers
    /\ Cardinality(possible_answers) < Cardinality(InitialPool)

\* C4: apply_guess with a guess or a pattern that is malformed after trimming
\* and lower-casing raises ValueError and leaves guesses_made and
\* possible_answers as they were.
C4_MalformedChangesNothing ==
    [][call'.op = "apply_guess" /\ Malformed(call'.guess, call'.pattern) =>
          /\ ret' = Raised("ValueError")
          /\ UNCHANGED <<possible_answers, guesses_made>>]_vars

C4_Witness ==
    /\ call.op = "apply_guess"
    /\ ret = Raised("ValueError")
    /\ Normalised(call.guess) \in Range(all_words) \cup {crane}
    /\ Len(guesses_made) = 1
    /\ possible_answers # InitialPool

\* C5 as stated: applying the all-Hit observation for a word always leaves a
\* pool of size exactly 1 that holds the word.
C5_AllHitLeavesExactlySecret ==
    AppliedGuess /\ Normalised(call.pattern) = AllGreen =>
        possible_answers = {Normalised(call.guess)}

\* C5, amended: applying the all-Hit observation for a word leaves the pool
\* holding exactly that word when the word was in the pool before the call,
\* and the empty pool otherwise.
C5_AllHitKeepsOnlySecret ==
    [][call'.op = "apply_guess" /\ ret'.status = "returned"
          /\ Normalised(call'.pattern) = AllGreen =>
              /\ possible_answers' = possible_answers \cap {Normalised(call'.guess)}
              /\ ret'.value = Cardinality(possible_answers')]_vars

C5_Witness ==
    /\ AppliedGuess
    /\ Normalised(call.pattern) = AllGreen
    /\ Len(guesses_made) = 2
    /\ guesses_made[1][2] # AllGreen
    /\ possible_answers = {Normalised(call.guess)}

\* C6: reset returns the session to the state right after construction:
\* guesses_made empty and possible_answers the original pool of the mode, with
\* the mode flags, the vocabulary and the solutions unchanged.
C6_ResetRestoresInitialState ==
    /\ [](call.op \in {"__init__", "reset"} =>
             guesses_made = <<>> /\ possible_answers = InitialPool)
    /\ [][call'.op = "reset" => UNCHANGED config]_vars

C6_Witness ==
    /\ call.op = "reset"
    /\ bot_mode
    /\ possible_answers = Range(solutions_list)
    /\ possible_answers # Range(all_words)

\* C7: every successful apply_guess appends exactly the normalised (guess,
\* pattern) pair at the end of guesses_made, and no step other than reset
\* removes, reorders or changes a recorded observation.
C7_HistoryAppendOnly ==
    [][/\ call'.op = "apply_guess" /\ ret'.status = "returned" =>
            guesses_made' = Append(guesses_made,
                                   <<Normalised(call'.guess), Normalised(call'.pattern)>>)
       /\ call'.op # "reset" => IsPrefix(guesses_made, guesses_made')]_vars

C7_Witness ==
    /\ AppliedGuess
    /\ Len(guesses_made) = 2
    /\ call.guess # guesses_made[2][1]
    /\ call.pattern # guesses_made[2][2]

\* the answer letters no green consumed: letter -> number of occurrences
RefRemaining(guess, answer) ==
    [c \in Range(answer) |->
        Cardinality({i \in 1..5 : answer[i] = c /\ guess[i] # answer[i]})]

RECURSIVE RefScan(_, _, _, _)
\* the symbols of positions i..5: green where the letters agree; otherwise
\* yellow, consuming one occurrence, when the letter is left, and gray if not
RefScan(guess, answer, remaining, i) ==
    IF i > 5 THEN <<>>
    ELSE IF guess[i] = answer[i]
    THEN <<"g">> \o RefScan(guess, answer, remaining, i + 1)
    ELSE IF guess[i] \in DOMAIN remaining /\ remaining[guess[i]] > 0
    THEN <<"y">> \o RefScan(guess, answer,
                            [remaining EXCEPT ![guess[i]] = @ - 1], i + 1)
    ELSE <<"x">> \o RefScan(guess, answer, remaining, i + 1)

\* C8: get_pattern returns the result of the two-pass multiset-consuming
\* reference for every pair of 5-letter words.
C8_PatternIsTwoPassReference ==
    call.op = "get_pattern" /\ ret.status = "returned" =>
        ret.value = RefScan(call.guess, call.answer,
                            RefRemaining(call.guess, call.answer), 1)

C8_Witness ==
    /\ call.op = "get_pattern"
    /\ ret.status = "returned"
    /\ \E i, j, k \in 1..5 :
          /\ i < j /\ j < k
          /\ call.guess[i] = call.guess[j] /\ call.guess[j] = call.guess[k]
          /\ ret.value[i] = "y" /\ ret.value[j] = "x" /\ ret.value[k] = "g"

\* C9: with a non-empty pool and top_n >= 1, the list get_best_guess and
\* get_best_guess_bot return has at most top_n entries.
C9_AtMostTopN ==
    Recommended /\ possible_answers # {} /\ call.top_n >= 1 =>
        Len(ret.value) <= call.top_n

\* C10: the list a recommendation call returns is the list every iteration
\* order of the underlying sets gives.
C10_SameListForEveryOrder ==
    /\ call.op = "get_best_guess" =>
          \A o \in Orders(iterated) :
              ret.value = get_best_guess_result(call.top_n, o, entropy_rows(candidates))
    /\ call.op = "get_best_guess_bot" =>
          \A o \in Orders(iterated) :
              ret.value = get_best_guess_bot_result(call.top_n, o, bot_rows(candidates))

-----------------------------------------------------------------------------
(* C11..C18 *)

Min(a, b) == IF a < b THEN a ELSE b

\* entry a ranks strictly before entry b in entropy mode: the higher entropy
\* first; at equal entropy a still-possible answer before a probe; then the
\* lower expected-remaining; then the higher word score
EntropyBefore(a, b) ==
    LET e == Cmp(a[2], b[2])
        x == Cmp(a[3], b[3])
    IN  IF e # 0 THEN e > 0
        ELSE IF a[4] # b[4] THEN a[4]
        ELSE IF x # 0 THEN x < 0
        ELSE Cmp(get_word_score(a[1]), get_word_score(b[1])) > 0

\* entry a ranks strictly before entry b in bot mode: the lower
\* expected-remaining first; at equal expected-remaining a still-possible
\* answer before a probe; then the higher commonality score
BotBefore(a, b) ==
    LET x == Cmp(a[2], b[2])
    IN  IF x # 0 THEN x < 0
        ELSE IF a[4] # b[4] THEN a[4]
        ELSE Cmp(a[3], b[3]) > 0

\* a ranks strictly before b under the key of the mode of the last call
RanksBefore(a, b) ==
    IF call.op = "get_best_guess" THEN EntropyBefore(a, b) ELSE BotBefore(a, b)

\* the entry of a candidate word in the mode of the last call
EntryOf(w) == IF call.op = "get_best_guess" THEN entropy_entry(w) ELSE bot_entry(w)

\* the words of a returned list
WordsOf(out) == {out[i][1] : i \in DOMAIN out}

\* C11: with three or more candidates the returned list holds the entries of
\* min(top_n, number of candidates) distinct candidate words, in the order of
\* the mode's key, and no candidate left out ranks strictly before a returned
\* one.
C11_TopOfSortedCandidates ==
    Recommended /\ Cardinality(possible_answers) >= 3 =>
        LET out == ret.value
        IN  /\ Len(out) = Min(call.top_n, Cardinality(candidates))
            /\ WordsOf(out) \subseteq candidates
            /\ Cardinality(WordsOf(out)) = Len(out)
            /\ \A i \in DOMAIN out : out[i] = EntryOf(out[i][1])
            /\ \A i \in DOMAIN out : \A j \in DOMAIN out :
                  i < j => ~RanksBefore(out[j], out[i])
            /\ \A w \in candidates \ WordsOf(out) : \A i \in DOMAIN out :
                  ~RanksBefore(EntryOf(w), out[i])

C11_Witness ==
    /\ Recommended
    /\ Cardinality(possible_answers) >= 3
    /\ ~hard_mode
    /\ Len(ret.value) = 2
    /\ RanksBefore(ret.value[1], ret.value[2])
    /\ \E w \in candidates \ WordsOf(ret.value) : RanksBefore(ret.value[2], EntryOf(w))
    /\ \E w \in candidates \ WordsOf(ret.value) : w \notin possible_answers

\* C12: in hard mode every word get_best_guess and get_best_guess_bot return
\* is a member of possible_answers, flagged as a possible answer and consistent
\* with every recorded observation: no pure probe is recommended.
C12_HardModeOnlyPossibleAnswers ==
    hard_mode /\ Recommended =>
        \A i \in DOMAIN ret.value :
            /\ ret.value[i][1] \in possible_answers
            /\ ret.value[i][4] = TRUE
            /\ ConsistentWithHistory(ret.value[i][1])

C12_Witness ==
    /\ hard_mode
    /\ Recommended
    /\ guesses_made # <<>>
    /\ Cardinality(possible_answers) >= 3
    /\ Range(all_words) \ possible_answers # {}
    /\ Len(ret.value) >= 2

\* the last call and the next are both get_word_score, made in bot mode
TwoScoreCalls == bot_mode /\ call.op = "get_word_score" /\ call'.op = "get_word_score"

\* C13: in bot mode get_word_score returns one constant baseline for every
\* word absent from word_frequencies, whatever letters the word holds, and for
\* a word of the table the log-scaled weight, which grows with the weight.
C13_AbsentWordsScoreBaseline ==
    [][TwoScoreCalls =>
          /\ call.word \notin DOMAIN word_frequencies
                /\ call'.word \notin DOMAIN word_frequencies => ret' = ret
          /\ call'.word \in DOMAIN word_frequencies =>
                ret'.value = Log10Tenth(word_frequencies[call'.word] + 1)
          /\ call.word \in DOMAIN word_frequencies
                /\ call'.word \in DOMAIN word_frequencies
                /\ word_frequencies[call.word] <= word_frequencies[call'.word] =>
                    Cmp(ret.value, ret'.value) <= 0]_vars

RECURSIVE SumOf(_, _)
\* the sum of f[x] over the x of S
SumOf(f, S) ==
    IF S = {} THEN 0
    ELSE LET x == CHOOSE y \in S : TRUE
         IN  f[x] + SumOf(f, S \ {x})

\* the pattern classes of a pool under a guess: the words that give the same
\* pattern, as sets
PatternClasses(guess, pool) ==
    {{v \in pool : get_pattern(guess, v) = get_pattern(guess, w)} : w \in pool}

\* how many words of the pool survive the guess when w is the answer
Survivors(guess, pool) ==
    [w \in pool |-> Cardinality(filter_words(guess, get_pattern(guess, w), pool))]

\* C16: for a non-empty pool of size n, calculate_expected_remaining times n
\* is the sum of the squared class sizes, which is the sum over the pool words
\* w of the number of words that survive the guess when w is the answer; the
\* value lies between 1 and n; for an empty pool it is 0.
C16_ExpectedRemainingIsMeanSurvivors ==
    call.op = "calculate_expected_remaining" =>
        LET pool == call.word_pool
            n == Cardinality(pool)
            classes == PatternClasses(call.guess, pool)
            squares == SumOf([c \in classes |-> Cardinality(c) * Cardinality(c)], classes)
            survivors == SumOf(Survivors(call.guess, pool), pool)
        IN  IF n = 0 THEN ret.value.num = 0
            ELSE /\ ret.value.num * n = squares * ret.value.den
                 /\ squares = survivors
                 /\ ret.value.den <= ret.value.num
                 /\ ret.value.num <= n * ret.value.den

C16_Witness ==
    /\ call.op = "calculate_expected_remaining"
    /\ Cardinality(call.word_pool) = 3
    /\ call.guess \notin call.word_pool
    /\ ret.value.den = 3
    /\ ret.value.num = 5

\* C15: with exactly one or exactly two words in the pool a recommendation
\* returns exactly the words of the pool, one entry each, flagged as possible
\* answers, with the scores the partition computation gives: entropy 0 for one
\* candidate and 1 bit for two, and expected-remaining 1.
C15_ShortcutMatchesFullScores ==
    Recommended /\ Cardinality(possible_answers) \in {1, 2} =>
        LET out == ret.value
            n == Cardinality(possible_answers)
        IN  /\ Len(out) = n
            /\ WordsOf(out) = possible_answers
            /\ \A i \in DOMAIN out :
                  LET w == out[i][1]
                      expected == IF call.op = "get_best_guess" THEN out[i][3]
                                  ELSE out[i][2]
                  IN  /\ out[i][4] = TRUE
                      /\ Cmp(expected, Ratio(1, 1)) = 0
                      /\ Cmp(expected,
                             calculate_expected_remaining(w, possible_answers)) = 0
                      /\ call.op = "get_best_guess" =>
                            /\ Cmp(out[i][2], Bits(n, 1)) = 0
                            /\ Cmp(out[i][2],
                                   calculate_entropy(w, possible_answers)) = 0

C15_Witness ==
    /\ call.op = "get_best_guess"
    /\ ~hard_mode
    /\ Cardinality(possible_answers) = 2
    /\ Len(ret.value) = 2
    /\ Range(all_words) \ possible_answers # {}

\* C17: a well-formed observation never makes apply_guess raise; one that no
\* candidate satisfies is recorded, empties the pool and returns 0; once the
\* pool is empty every later well-formed apply_guess returns 0 and the pool
\* stays empty until reset.
C17_ExhaustedIsTerminalState ==
    [][/\ call'.op = "apply_guess" /\ ~Malformed(call'.guess, call'.pattern) =>
            /\ ret'.status = "returned"
            /\ guesses_made' = Append(guesses_made, <<Normalised(call'.guess),
                                                      Normalised(call'.pattern)>>)
            /\ (\A w \in possible_answers :
                    get_pattern(Normalised(call'.guess), w) # Normalised(call'.pattern))
                 => possible_answers' = {} /\ ret'.value = 0
       /\ possible_answers = {} /\ call'.op # "reset" => possible_answers' = {}]_vars

C17_Witness ==
    /\ AppliedGuess
    /\ Len(guesses_made) = 2
    /\ {w \in InitialPool : get_pattern(guesses_made[1][1], w) = guesses_made[1][2]} = {}
    /\ guesses_made[2] # guesses_made[1]
    /\ possible_answers = {}
    /\ ret.value = 0

\* the scoring, ranking and query operations
QueryOps == {"get_best_guess", "get_best_guess_bot", "calculate_entropy",
             "calculate_expected_remaining", "get_word_score", "get_remaining_words"}

\* C18: the scoring, ranking and query operations leave possible_answers,
\* guesses_made, all_words and the mode flags as they were, and a step that
\* changes the pool or the history is an apply_guess or a reset.
C18_QueriesAreReadOnly ==
    [][/\ call'.op \in QueryOps =>
            UNCHANGED <<possible_answers, guesses_made, all_words, hard_mode, bot_mode>>
       /\ possible_answers' # possible_answers \/ guesses_made' # guesses_made =>
            call'.op \in {"apply_guess", "reset"}]_vars

C18_Witness ==
    /\ call.op = "get_remaining_words"
    /\ Len(guesses_made) = 1
    /\ Cardinality(possible_answers) >= 3
    /\ Len(ret.value) < Cardinality(possible_answers)
    /\ possible_answers # InitialPool

=============================================================================
